---- MODULE Spec2Model ----
(***************************************************************************)
(* A model of ItemList (src/unnamed/part_000, the file the facades import  *)
(* as ./internal/item_list), the position-keyed list behind List and       *)
(* Outline.  The state is the Map from OrderNode to NodeData plus the      *)
(* single-entry index cache; there is one action per public operation.     *)
(*                                                                         *)
(* The Order (position tree) and the sparse item store are collaborators   *)
(* whose code is not part of the sources at hand; they are modelled from   *)
(* their documented contracts (sections 3.1, 4.1 and 6 of spec.md).        *)
(***************************************************************************)
EXTENDS Integers, Sequences, FiniteSets, TLC

\* ------------------------------------------------------------------ bounds

\* Slots 0 .. MaxSlot-1 of node c1 are used, and one slot fewer of the leaves.
MaxSlot == 2
\* An item written by one set / insert call holds at most MaxItemLen values.
MaxItemLen == 2

\* The root admits valueIndex 0 and 1 only (part_000:59, part_000:85).
RootLastValueIndex == 1

\* The values of the list (type parameter T).
Vals == {"a", "b"}
\* The content of a slot that holds no value.
Absent == "-"
\* What get returns for a position that is not present.
Undefined == "undefined"
\* cachedIndexNode when nothing is cached.
Null == "null"

\* ------------------------------------------------- the position tree (Order)

\* The tree the list reads from.  It is fixed: a node that createPositions
\* will hand out later is already a member, without a record, which is how
\* every loop of ItemList sees a child nobody wrote to.
\*
\*   ROOT --+-- c1 (before ROOT slot 1) ---- g (before c1 slot 1)
\*          +-- c2 (before ROOT slot 2)
rootNode == "ROOT"
NodeIDs == {"ROOT", "c1", "c2", "g"}
\* A nodeID the Order does not know.
UnknownID == "zz"

parent(n) ==
  CASE n = "c1" -> "ROOT"
    [] n = "c2" -> "ROOT"
    [] n = "g"  -> "c1"
    [] OTHER    -> Null

nextValueIndex(n) ==
  CASE n = "c1" -> 1
    [] n = "c2" -> 2
    [] n = "g"  -> 1
    [] OTHER    -> 0

\* The children of a node in the Order's child order
\* (non-decreasing nextValueIndex).
children(n) ==
  CASE n = "ROOT" -> <<"c1", "c2">>
    [] n = "c1"   -> <<"g">>
    [] OTHER      -> <<>>

childrenLength(n) == Len(children(n))
\* getChild is 0-based in the code.
getChild(n, i) == children(n)[i + 1]

\* The slots of a node the model uses.
SlotCount(n) ==
  IF n = rootNode THEN RootLastValueIndex + 1
  ELSE IF n = "c1" THEN MaxSlot
  ELSE MaxSlot - 1
SlotsOf(n) == 0 .. (SlotCount(n) - 1)

Position(n, v) == [nodeID |-> n, valueIndex |-> v]
Positions == {Position(n, v) : n \in NodeIDs, v \in 0 .. (MaxSlot - 1)} \cup
             {Position(rootNode, v) : v \in 0 .. RootLastValueIndex}
ValidPositions == {p \in Positions : p.valueIndex \in SlotsOf(p.nodeID)}

MIN_POSITION == Position(rootNode, 0)
MAX_POSITION == Position(rootNode, 1)

\* ---------------------------------------------------- the sparse item store

\* A sparse sequence is << p0, a0, p1, a1, ... >>: at odd places a run of
\* present values, at even places the length of a run of absent slots.

RECURSIVE Repeat(_, _)
Repeat(x, k) == IF k <= 0 THEN <<>> ELSE <<x>> \o Repeat(x, k - 1)

\* The slots a sparse sequence stands for, one element per slot.
RECURSIVE Expand(_)
Expand(items) ==
  IF items = <<>> THEN <<>>
  ELSE IF Len(items) = 1 THEN items[1]
  ELSE items[1] \o Repeat(Absent, items[2]) \o Expand(SubSeq(items, 3, Len(items)))

RECURSIVE LeadingPresent(_)
LeadingPresent(slots) ==
  IF slots = <<>> \/ slots[1] = Absent THEN 0 ELSE 1 + LeadingPresent(Tail(slots))

RECURSIVE LeadingAbsent(_)
LeadingAbsent(slots) ==
  IF slots = <<>> \/ slots[1] # Absent THEN 0 ELSE 1 + LeadingAbsent(Tail(slots))

\* The run-length form of a slot sequence, adjacent runs merged.
RECURSIVE Encode(_)
Encode(slots) ==
  IF slots = <<>> THEN <<>>
  ELSE LET p == LeadingPresent(slots)
           rest == SubSeq(slots, p + 1, Len(slots))
           a == LeadingAbsent(rest)
       IN IF a = 0 THEN <<SubSeq(slots, 1, p)>>
          ELSE <<SubSeq(slots, 1, p), a>> \o Encode(SubSeq(rest, a + 1, Len(rest)))

\* arrayMan.new(): the empty sparse sequence.
new == <<>>

\* arrayMan.trim: drops the trailing absent run.
RECURSIVE trim(_)
trim(items) ==
  IF items = <<>> THEN <<>>
  ELSE IF Len(items) % 2 = 0 THEN trim(SubSeq(items, 1, Len(items) - 1))
  ELSE IF items[Len(items)] = <<>> THEN trim(SubSeq(items, 1, Len(items) - 1))
  ELSE items

\* The slot sequence of `slots` made at least k long.
PadTo(slots, k) == slots \o Repeat(Absent, k - Len(slots))

\* The slots of `slots` with `written` put at slots i .. i+Len(written)-1.
Overwrite(slots, i, written) ==
  LET padded == PadTo(slots, i + Len(written))
  IN [k \in 1 .. Len(padded) |->
        IF k > i /\ k <= i + Len(written) THEN written[k - i] ELSE padded[k]]

\* arrayMan.size: the number of present values.
size(items) == Cardinality({k \in 1 .. Len(Expand(items)) : Expand(items)[k] # Absent})

\* arrayMan.isEmpty.
isEmpty(items) == size(items) = 0

\* arrayMan.set(items, i, item): << the new sequence, what the written
\* range held before >>.
set(items, i, item) ==
  LET old == PadTo(Expand(items), i + Len(item))
  IN << Encode(Overwrite(Expand(items), i, item)),
        trim(Encode(SubSeq(old, i + 1, i + Len(item)))) >>

\* arrayMan.delete(items, i, count): the same, writing absent slots.
delete(items, i, count) ==
  LET old == PadTo(Expand(items), i + count)
  IN << Encode(Overwrite(Expand(items), i, Repeat(Absent, count))),
        trim(Encode(SubSeq(old, i + 1, i + count))) >>

\* arrayMan.getInfo(items, i):
\* << value or Undefined, isPresent, number of present slots in [0, i) >>.
getInfo(items, i) ==
  LET slots == Expand(items)
      present == i < Len(slots) /\ slots[i + 1] # Absent
  IN << IF present THEN slots[i + 1] ELSE Undefined,
        present,
        Cardinality({k \in 1 .. Len(slots) : k <= i /\ slots[k] # Absent}) >>

\* arrayMan.findPresentIndex(items, startIndex, count): the slot of the
\* count-th (0-based) present value at or after startIndex; -1 stands for
\* the caller having broken its guarantee that the value exists.
findPresentIndex(items, startIndex, count) ==
  LET slots == Expand(items)
      hits == {k \in 0 .. (Len(slots) - 1) :
                 /\ k >= startIndex
                 /\ slots[k + 1] # Absent
                 /\ Cardinality({j \in startIndex .. (k - 1) : slots[j + 1] # Absent}) = count}
  IN IF hits = {} THEN -1 ELSE CHOOSE k \in hits : TRUE

\* slicer.nextSlice(endSlot) of a slicer standing at slot `from`: the
\* << slot, value >> pairs of the present slots in [from, endSlot), in slot
\* order; endSlot = -1 stands for null: up to the end of the sequence.
RECURSIVE SliceFrom(_, _, _)
SliceFrom(slots, from, to) ==
  IF from >= to THEN <<>>
  ELSE (IF slots[from + 1] # Absent THEN << <<from, slots[from + 1]>> >> ELSE <<>>)
       \o SliceFrom(slots, from + 1, to)

nextSlice(items, from, endSlot) ==
  LET slots == Expand(items)
      to == IF endSlot < 0 THEN Len(slots)
            ELSE IF endSlot < Len(slots) THEN endSlot ELSE Len(slots)
  IN SliceFrom(slots, from, to)

\* ------------------------------------------------------------ the ItemList

VARIABLES
  state,            \* Map<OrderNode, NodeData>: a function on the nodes that have a record
  cachedIndexNode,  \* the node whose beforeNode is cached, or Null
  cachedIndex       \* the cached beforeNode

vars == <<state, cachedIndexNode, cachedIndex>>

NodeData(t, pvb, v) == [total |-> t, parentValuesBefore |-> pvb, values |-> v]

\* Map.set, Map.delete.
MapSet(st, n, d) == [k \in (DOMAIN st) \cup {n} |-> IF k = n THEN d ELSE st[k]]
MapDelete(st, n) == [k \in (DOMAIN st) \ {n} |-> st[k]]

\* this.state.get(node)?.total ?? 0
total(st, n) == IF n \in DOMAIN st THEN st[n].total ELSE 0

\* A length that adds the total of c1's record to the root's.
length_plusChild(st) == total(st, rootNode) + total(st, "c1")

length(st) == total(st, rootNode)

\* A getOrCreateData that starts every new record at offset 0.
getOrCreateData_zeroOffset(st, n) ==
  IF n \in DOMAIN st THEN st ELSE MapSet(st, n, NodeData(0, 0, new))

\* The state map after getOrCreateData(node); the record is st'[node].
getOrCreateData(st, n) ==
  IF n \in DOMAIN st THEN st
  ELSE LET pvb == IF parent(n) # Null /\ parent(n) \in DOMAIN st
                  THEN getInfo(st[parent(n)].values, nextValueIndex(n))[3]
                  ELSE 0
       IN MapSet(st, n, NodeData(0, pvb, new))

\* One pass of onUpdate's loop over node and its ancestors: the record the
\* loop adds delta to is looked up under `node` (part_000:143), the record
\* it drops is that of `current` (part_000:145).
UpdateTotalStep(st, node, current, delta) ==
  LET st1 == getOrCreateData(st, node)
      st2 == [st1 EXCEPT ![node].total = @ + delta]
  IN IF st2[node].total = 0 THEN MapDelete(st2, current) ELSE st2

RECURSIVE UpdateTotals(_, _, _, _)
UpdateTotals(st, node, current, delta) ==
  IF current = Null THEN st
  ELSE UpdateTotals(UpdateTotalStep(st, node, current, delta), node, parent(current), delta)

\* An onUpdate without its last loop.
UpdateChildren_none(st, node) == st

\* onUpdate's last loop: child.parentValuesBefore for node's children.
UpdateChildren(st, node) ==
  IF node \notin DOMAIN st THEN st
  ELSE [k \in DOMAIN st |->
          IF parent(k) = node
          THEN [st[k] EXCEPT !.parentValuesBefore =
                  getInfo(st[node].values, nextValueIndex(k))[3]]
          ELSE st[k]]

\* The state map after onUpdate(node, delta).
onUpdate(st, node, delta) ==
  UpdateChildren(IF delta # 0 THEN UpdateTotals(st, node, node, delta) ELSE st, node)

\* An onUpdate that never invalidates the cache.
onUpdateCache_keeps(cNode, node) == cNode

\* cachedIndexNode after onUpdate(node, delta).
onUpdateCache(cNode, node) == IF cNode # node THEN Null ELSE cNode

\* cachedIndex is read only when cachedIndexNode is the node asked for
\* (part_000:314-319) and is written together with it (part_000:341-342):
\* while cachedIndexNode is null its value is dead, and the model keeps the
\* initial -1 (part_000:275) in its place.
cachedIndexWhen(cNode, cIdx) == IF cNode = Null THEN -1 ELSE cIdx

\* ---------------------------------------------------------------- accessors

\* getInNode(node, valueIndex).
getInNode(st, n, v) ==
  IF n \notin DOMAIN st THEN <<Undefined, FALSE, 0>> ELSE getInfo(st[n].values, v)

get(st, pos) == getInNode(st, pos.nodeID, pos.valueIndex)[1]
has(st, pos) == getInNode(st, pos.nodeID, pos.valueIndex)[2]

\* The totals of node's children that come at or before valueIndex
\* (indexOfPosition's first loop, which breaks at the first later child).
RECURSIVE ChildTotalsUpTo(_, _, _, _)
ChildTotalsUpTo(st, n, v, i) ==
  IF i >= childrenLength(n) THEN 0
  ELSE IF ~(nextValueIndex(getChild(n, i)) <= v) THEN 0
  ELSE total(st, getChild(n, i)) + ChildTotalsUpTo(st, n, v, i + 1)

\* The totals of the siblings that come before `current` in its parent.
RECURSIVE SiblingTotalsBefore(_, _, _)
SiblingTotalsBefore(st, current, i) ==
  IF i >= childrenLength(parent(current)) THEN 0
  ELSE IF getChild(parent(current), i) = current THEN 0
  ELSE total(st, getChild(parent(current), i)) + SiblingTotalsBefore(st, current, i + 1)

\* The parent's values that come before `current`, as indexOfPosition reads
\* them: from the record of current.parent (part_000:330).
ParentValuesBeforeRead(st, current) ==
  IF parent(current) \in DOMAIN st THEN st[parent(current)].parentValuesBefore ELSE 0

\* indexOfPosition's walk up the tree: the number of values before node.
RECURSIVE WalkBeforeNode(_, _)
WalkBeforeNode(st, current) ==
  IF parent(current) = Null THEN 0
  ELSE ParentValuesBeforeRead(st, current)
       + SiblingTotalsBefore(st, current, 0)
       + WalkBeforeNode(st, parent(current))

\* beforeNode as indexOfPosition gets it: from the cache when it is node's.
beforeNodeOf(st, cNode, cIdx, n) ==
  IF cNode = n THEN cIdx ELSE WalkBeforeNode(st, n)

\* What indexOfPosition(pos, searchDir) returns.
indexOfPosition(st, cNode, cIdx, pos, searchDir) ==
  LET info == getInNode(st, pos.nodeID, pos.valueIndex)
      valuesBefore == info[3]
                      + ChildTotalsUpTo(st, pos.nodeID, pos.valueIndex, 0)
                      + beforeNodeOf(st, cNode, cIdx, pos.nodeID)
  IN IF info[2] THEN valuesBefore
     ELSE CASE searchDir = "none"  -> -1
            [] searchDir = "left"  -> valuesBefore - 1
            [] searchDir = "right" -> valuesBefore

SearchDirs == {"none", "left", "right"}

\* The result of positionAt: a position, or the error it throws.
Found(n, v) == [status |-> "ok", nodeID |-> n, valueIndex |-> v]
Thrown(e) == [status |-> e, nodeID |-> Null, valueIndex |-> -1]

\* positionAt's for loop over current's children, from child i on.  It
\* returns from inside the loop when the index is among current's values
\* before a child with data.  Both a break (part_000:397) and the loop's
\* running out of children lead to the statement after the loop, the throw
\* of part_000:407.
RECURSIVE positionAtChildren(_, _, _, _, _, _)
positionAtChildren(st, current, i, remaining, nvi, prevPVB) ==
  IF i >= childrenLength(current) THEN Thrown("InternalError")
  ELSE LET child == getChild(current, i)
       IN IF child \notin DOMAIN st
          THEN positionAtChildren(st, current, i + 1, remaining, nvi, prevPVB)
          ELSE LET valuesBetween == st[child].parentValuesBefore - prevPVB
               IN IF remaining < valuesBetween
                  THEN Found(current, findPresentIndex(st[current].values, nvi, remaining))
                  ELSE IF remaining - valuesBetween < st[child].total
                  THEN Thrown("InternalError")
                  ELSE positionAtChildren(st, current, i + 1,
                         remaining - valuesBetween - st[child].total,
                         nextValueIndex(child), st[child].parentValuesBefore)

\* A positionAt that lets a negative index through.
positionAt_noLowerBound(st, index) ==
  IF index >= length(st) THEN Thrown("IndexOutOfBounds")
  ELSE positionAtChildren(st, rootNode, 0, index, 0, 0)

positionAt(st, index) ==
  IF index < 0 \/ index >= length(st) THEN Thrown("IndexOutOfBounds")
  ELSE positionAtChildren(st, rootNode, 0, index, 0, 0)

\* ---------------------------------------------------------------- iterators

\* An optional argument: undefined, or a number.
None == [def |-> FALSE, val |-> 0]
Some(k) == [def |-> TRUE, val |-> k]

\* A normalizeSliceRange that takes a negative end for the end of the list.
normalizeSliceRange_negativeEndIsLength(st, start, end) ==
  LET len == length(st)
      startNull == start.def /\ ~(start.val < 0 - len) /\ ~(start.val < 0) /\ start.val >= len
      s == IF ~start.def \/ start.val < 0 - len THEN 0
           ELSE IF start.val < 0 THEN start.val + len
           ELSE start.val
      e == IF ~end.def \/ end.val >= len \/ end.val < 0 THEN len ELSE end.val
  IN IF startNull THEN [null |-> TRUE, start |-> 0, end |-> 0]
     ELSE IF e <= s THEN [null |-> TRUE, start |-> 0, end |-> 0]
     ELSE [null |-> FALSE, start |-> s, end |-> e]

\* normalizeSliceRange(start, end): null, or the range [start, end).
NoRange == [null |-> TRUE, start |-> 0, end |-> 0]
normalizeSliceRange(st, start, end) ==
  LET len == length(st)
      startNull == start.def /\ ~(start.val < 0 - len) /\ ~(start.val < 0) /\ start.val >= len
      s == IF ~start.def \/ start.val < 0 - len THEN 0
           ELSE IF start.val < 0 THEN start.val + len
           ELSE start.val
      e == IF ~end.def \/ end.val >= len THEN len
           ELSE IF end.val < 0 - len THEN 0
           ELSE IF end.val < 0 THEN end.val + len
           ELSE end.val
  IN IF startNull THEN NoRange
     ELSE IF e <= s THEN NoRange
     ELSE [null |-> FALSE, start |-> s, end |-> e]

Entry(n, v, value) == [pos |-> Position(n, v), value |-> value]
Frame(n) == [node |-> n, nextChildIndex |-> 0, cursor |-> 0]

\* The entries of `slice` whose running index (the k-th has index + k - 1)
\* is at least start.
RECURSIVE Emit(_, _, _, _)
Emit(n, slice, index, start) ==
  IF slice = <<>> THEN <<>>
  ELSE (IF index >= start THEN <<Entry(n, slice[1][1], slice[1][2])>> ELSE <<>>)
       \o Emit(n, Tail(slice), index + 1, start)

\* The while loop of entries: `stack` is the manual stack, `index` the
\* running index, `out` what was yielded so far.
RECURSIVE entriesLoop(_, _, _, _, _, _)
entriesLoop(st, stack, index, out, start, end) ==
  IF stack = <<>> THEN out
  ELSE LET top == stack[Len(stack)]
           node == top.node
           lastFrame == top.nextChildIndex = childrenLength(node)
           endValueIndex == IF lastFrame THEN -1
                            ELSE nextValueIndex(getChild(node, top.nextChildIndex))
           slice == nextSlice(st[node].values, top.cursor, endValueIndex)
           need == end - index
       IN IF Len(slice) >= need
          THEN out \o Emit(node, SubSeq(slice, 1, need), index, start)
          ELSE LET index1 == index + Len(slice)
                   out1 == out \o Emit(node, slice, index, start)
                   below == SubSeq(stack, 1, Len(stack) - 1)
               IN IF lastFrame THEN entriesLoop(st, below, index1, out1, start, end)
                  ELSE LET child == getChild(node, top.nextChildIndex)
                           top1 == [top EXCEPT !.nextChildIndex = @ + 1,
                                               !.cursor = endValueIndex]
                       IN IF child \notin DOMAIN st
                          THEN entriesLoop(st, below \o <<top1>>, index1, out1, start, end)
                          ELSE IF index1 + st[child].total <= start
                          THEN entriesLoop(st, below \o <<top1>>,
                                           index1 + st[child].total, out1, start, end)
                          ELSE entriesLoop(st, below \o <<top1, Frame(child)>>,
                                           index1, out1, start, end)

\* What entries(start, end) yields, as a sequence.
entries(st, start, end) ==
  LET range == normalizeSliceRange(st, start, end)
  IN IF range.null THEN <<>>
     ELSE entriesLoop(st, <<Frame(rootNode)>>, 0, <<>>, range.start, range.end)

\* ------------------------------------------------ list order (section 3.1)

\* The positions of the subtree of n in list order, from slot v and child i
\* on: a child anchored at nextValueIndex <= v comes before slot v.
RECURSIVE OrderFrom(_, _, _)
OrderFrom(n, v, i) ==
  IF i < childrenLength(n) /\ (nextValueIndex(getChild(n, i)) <= v \/ v \notin SlotsOf(n))
  THEN OrderFrom(getChild(n, i), 0, 0) \o OrderFrom(n, v, i + 1)
  ELSE IF v \in SlotsOf(n) THEN <<Position(n, v)>> \o OrderFrom(n, v + 1, i)
  ELSE <<>>

\* Every position of the model, in list order.
ListOrder == OrderFrom(rootNode, 0, 0)

\* The place of a position in list order (0 when it is no position of the model).
OrderIndex(p) ==
  IF \E k \in 1 .. Len(ListOrder) : ListOrder[k] = p
  THEN CHOOSE k \in 1 .. Len(ListOrder) : ListOrder[k] = p
  ELSE 0

\* The present positions in list order.
PresentInOrder(st) ==
  LET Present(p) == has(st, p) IN SelectSeq(ListOrder, Present)

\* The number of present positions strictly before p in list order.
PresentBefore(st, p) ==
  Cardinality({k \in 1 .. (OrderIndex(p) - 1) : has(st, ListOrder[k])})

\* ----------------------------------------------------------------- mutators

\* A set that writes the first value of the item only.
setState_firstValueOnly(st, n, v, item) ==
  LET st1 == getOrCreateData(st, n)
      r == set(st1[n].values, v, <<item[1]>>)
      st2 == [st1 EXCEPT ![n].values = trim(r[1])]
  IN onUpdate(st2, n, 1 - size(r[2]))

\* The state map after the body of set (part_000:67-74), past its checks.
setState(st, n, v, item) ==
  LET st1 == getOrCreateData(st, n)
      r == set(st1[n].values, v, item)
      st2 == [st1 EXCEPT ![n].values = trim(r[1])]
  IN onUpdate(st2, n, Len(item) - size(r[2]))

\* A set that returns at length 0 before it resolves the node.
setOutcome_lengthFirst(pos, item) ==
  IF Len(item) = 0 THEN "ok"
  ELSE IF pos.nodeID \notin NodeIDs THEN "MissingNode"
  ELSE IF pos.nodeID = rootNode /\ pos.valueIndex + Len(item) - 1 > RootLastValueIndex
  THEN "InvalidPosition"
  ELSE "ok"

\* How set(startPos, item) ends.
setOutcome(pos, item) ==
  IF pos.nodeID \notin NodeIDs THEN "MissingNode"
  ELSE IF Len(item) = 0 THEN "ok"
  ELSE IF pos.nodeID = rootNode /\ pos.valueIndex + Len(item) - 1 > RootLastValueIndex
  THEN "InvalidPosition"
  ELSE "ok"

\* A delete that stores the sequence without trimming it.
deleteState_untrimmed(st, n, v, count) ==
  IF n \notin DOMAIN st THEN st
  ELSE LET r == delete(st[n].values, v, count)
           st2 == [st EXCEPT ![n].values = r[1]]
       IN onUpdate(st2, n, 0 - size(r[2]))

\* The state map after the body of delete (part_000:93-104), past its checks.
deleteState(st, n, v, count) ==
  IF n \notin DOMAIN st THEN st
  ELSE LET r == delete(st[n].values, v, count)
           st2 == [st EXCEPT ![n].values = trim(r[1])]
       IN onUpdate(st2, n, 0 - size(r[2]))

\* A delete that checks the start slot, not the last slot, against the root's.
deleteOutcome_startOnly(pos, count) ==
  IF pos.nodeID \notin NodeIDs THEN "MissingNode"
  ELSE IF count = 0 THEN "ok"
  ELSE IF pos.nodeID = rootNode /\ pos.valueIndex > RootLastValueIndex
  THEN "InvalidPosition"
  ELSE "ok"

\* How delete(startPos, count) ends.
deleteOutcome(pos, count) ==
  IF pos.nodeID \notin NodeIDs THEN "MissingNode"
  ELSE IF count = 0 THEN "ok"
  ELSE IF pos.nodeID = rootNode /\ pos.valueIndex + count - 1 > RootLastValueIndex
  THEN "InvalidPosition"
  ELSE "ok"

\* The items a call may write over the values V: the empty item, the single
\* values, and one item of each greater length.
ItemsOver(V) ==
  {<< >>} \cup {<<x>> : x \in V} \cup
  {[j \in 1 .. k |-> IF j % 2 = 0 /\ "b" \in V THEN "b" ELSE "a"] : k \in 2 .. MaxItemLen}
\* The root and c1 are written with every value, the leaves with "a" only.
ValsOf(n) == IF n \in {"g", "c2"} THEN {"a"} ELSE Vals
Counts == 0 .. MaxItemLen
\* The positions a call of length len may name: the write stays within the
\* slots of the model, except at the root, where the first invalid slot is
\* tried too; and one position of a node the Order does not know.
CallPositions(len) ==
  {p \in ValidPositions : p.nodeID # rootNode /\ p.valueIndex + len <= SlotCount(p.nodeID)} \cup
  {Position(rootNode, v) : v \in 0 .. (RootLastValueIndex + 1)} \cup
  {Position(UnknownID, 0)}
\* The calls of set: a position and an item.
SetCalls ==
  {c \in (ValidPositions \cup {Position(rootNode, RootLastValueIndex + 1),
                               Position(UnknownID, 0)}) \X ItemsOver(Vals) :
     /\ c[1] \in CallPositions(Len(c[2]))
     /\ c[2] \in ItemsOver(ValsOf(c[1].nodeID))}

\* The state map and cachedIndexNode after the whole call set(startPos, item):
\* nothing changes when the call throws or returns at length 0.
setCall(st, pos, item) ==
  IF setOutcome(pos, item) = "ok" /\ Len(item) # 0
  THEN setState(st, pos.nodeID, pos.valueIndex, item)
  ELSE st
\* A set that never touches the cache.
setCallCache_keeps(cNode, pos, item) == cNode

setCallCache(cNode, pos, item) ==
  IF setOutcome(pos, item) = "ok" /\ Len(item) # 0
  THEN onUpdateCache(cNode, pos.nodeID)
  ELSE cNode
\* What set returns: the displaced values (nothing at length 0).
setReturn(st, pos, item) ==
  IF Len(item) = 0 THEN new
  ELSE set(getOrCreateData(st, pos.nodeID)[pos.nodeID].values, pos.valueIndex, item)[2]

\* The same for delete(startPos, count): a node without a record makes it
\* return before onUpdate (part_000:93-97).
\* A delete that obtains the node's record as set does, creating it.
deleteCall_createsRecord(st, pos, count) ==
  IF deleteOutcome(pos, count) = "ok" /\ count # 0
  THEN deleteState(getOrCreateData(st, pos.nodeID), pos.nodeID, pos.valueIndex, count)
  ELSE st

deleteCall(st, pos, count) ==
  IF deleteOutcome(pos, count) = "ok" /\ count # 0
  THEN deleteState(st, pos.nodeID, pos.valueIndex, count)
  ELSE st
deleteCallCache(st, cNode, pos, count) ==
  IF deleteOutcome(pos, count) = "ok" /\ count # 0 /\ pos.nodeID \in DOMAIN st
  THEN onUpdateCache(cNode, pos.nodeID)
  ELSE cNode
\* What delete returns: the displaced values (count absent slots when the
\* node has no record, nothing at count 0).
deleteReturn(st, pos, count) ==
  IF count = 0 THEN new
  ELSE IF pos.nodeID \notin DOMAIN st THEN << <<>>, count >>
  ELSE delete(st[pos.nodeID].values, pos.valueIndex, count)[2]

Set(pos, item) ==
  /\ state' = setCall(state, pos, item)
  /\ cachedIndexNode' = setCallCache(cachedIndexNode, pos, item)
  /\ cachedIndex' = cachedIndexWhen(cachedIndexNode', cachedIndex)

Delete(pos, count) ==
  /\ state' = deleteCall(state, pos, count)
  /\ cachedIndexNode' = deleteCallCache(state, cachedIndexNode, pos, count)
  /\ cachedIndex' = cachedIndexWhen(cachedIndexNode', cachedIndex)

\* The facades' calls by index (list.ts:133-135, 176-178, 311-313;
\* part_001:103-110): positionAt first, then the call by position.
PosOf(r) == Position(r.nodeID, r.valueIndex)

\* getAt(index): the value, or the error positionAt throws.
getAt(st, index) ==
  LET r == positionAt(st, index)
  IN IF r.status # "ok" THEN [status |-> r.status, value |-> Undefined]
     ELSE [status |-> "ok", value |-> get(st, PosOf(r))]

\* setAt(index, value).
setAtOutcome(st, index, value) ==
  LET r == positionAt(st, index)
  IN IF r.status # "ok" THEN r.status ELSE setOutcome(PosOf(r), <<value>>)
setAtState(st, index, value) ==
  LET r == positionAt(st, index)
  IN IF r.status # "ok" THEN st ELSE setCall(st, PosOf(r), <<value>>)
setAtCache(st, cNode, index, value) ==
  LET r == positionAt(st, index)
  IN IF r.status # "ok" THEN cNode ELSE setCallCache(cNode, PosOf(r), <<value>>)

SetAt(index, value) ==
  /\ state' = setAtState(state, index, value)
  /\ cachedIndexNode' = setAtCache(state, cachedIndexNode, index, value)
  /\ cachedIndex' = cachedIndexWhen(cachedIndexNode', cachedIndex)

\* deleteAt(index, count): the positions at index .. index+count-1 are
\* looked up first, then deleted one by one.
deleteAtPositions(st, index, count) ==
  [i \in 1 .. count |-> positionAt(st, index + i - 1)]
deleteAtOutcome(st, index, count) ==
  LET toDelete == deleteAtPositions(st, index, count)
      failed == {i \in 1 .. count : toDelete[i].status # "ok"}
  IN IF failed = {} THEN "ok"
     ELSE toDelete[CHOOSE i \in failed : \A j \in failed : i <= j].status
RECURSIVE deleteEach(_, _, _)
deleteEach(st, cNode, toDelete) ==
  IF toDelete = <<>> THEN [state |-> st, cachedIndexNode |-> cNode]
  ELSE deleteEach(deleteCall(st, PosOf(toDelete[1]), 1),
                  deleteCallCache(st, cNode, PosOf(toDelete[1]), 1),
                  Tail(toDelete))
deleteAt(st, cNode, index, count) ==
  IF deleteAtOutcome(st, index, count) # "ok"
  THEN [state |-> st, cachedIndexNode |-> cNode]
  ELSE deleteEach(st, cNode, deleteAtPositions(st, index, count))

DeleteAt(index, count) ==
  /\ state' = deleteAt(state, cachedIndexNode, index, count).state
  /\ cachedIndexNode' = deleteAt(state, cachedIndexNode, index, count).cachedIndexNode
  /\ cachedIndex' = cachedIndexWhen(cachedIndexNode', cachedIndex)

\* A clear that leaves the state map as it is.
clearState_keeps(st) == st

\* this.state.clear() (part_000:172).
clearState(st) == << >>

\* A clear that leaves the cache entry as it is.
clearCache_keeps(cNode) == cNode

\* this.cachedIndexNode = null (part_000:175).
clearCache(cNode) == Null

Clear ==
  /\ state' = clearState(state)
  /\ cachedIndexNode' = clearCache(cachedIndexNode)
  /\ cachedIndex' = cachedIndexWhen(Null, cachedIndex)

\* indexOfPosition stores beforeNode in the cache (part_000:341-342); it
\* throws, changing nothing, when the Order does not know the node.
IndexOfPosition(pos) ==
  IF pos.nodeID \notin NodeIDs THEN UNCHANGED vars
  ELSE /\ cachedIndex' = beforeNodeOf(state, cachedIndexNode, cachedIndex, pos.nodeID)
       /\ cachedIndexNode' = pos.nodeID
       /\ UNCHANGED state

\* order.createPositions(prevPos, nextPos, n): the start positions the Order
\* may hand out.  The n positions lie in one non-root node, strictly between
\* prevPos and nextPos, are new to the list and have nothing of the list
\* between them.  The empty set stands for the Order's throwing.
createPositions(st, prevPos, nextPos, n) ==
  IF n = 0 \/ OrderIndex(prevPos) = 0 \/ OrderIndex(nextPos) = 0 THEN {}
  ELSE {p \in ValidPositions :
          /\ p.nodeID # rootNode
          /\ p.valueIndex + n - 1 \in SlotsOf(p.nodeID)
          /\ OrderIndex(prevPos) < OrderIndex(p)
          /\ OrderIndex(Position(p.nodeID, p.valueIndex + n - 1)) < OrderIndex(nextPos)
          /\ \A k \in OrderIndex(p) .. OrderIndex(Position(p.nodeID, p.valueIndex + n - 1)) :
               ~has(st, ListOrder[k])}

\* How insert(prevPos, item) ends when the Order has a position to give.
insertOutcome(st, cNode, cIdx, prevPos, item) ==
  IF prevPos.nodeID \notin NodeIDs THEN "MissingNode"
  ELSE LET nextPos == positionAt(st, indexOfPosition(st, cNode, cIdx, prevPos, "left") + 1)
       IN IF nextPos.status # "ok" THEN nextPos.status
          ELSE IF createPositions(st, prevPos, Position(nextPos.nodeID, nextPos.valueIndex),
                                  Len(item)) = {}
          THEN "InvalidInsertion"
          ELSE "ok"

\* insert(prevPos, item).  indexOfPosition runs first and stores its cache
\* entry whatever happens next.
Insert(prevPos, item) ==
  LET result == insertOutcome(state, cachedIndexNode, cachedIndex, prevPos, item)
      cIdx == beforeNodeOf(state, cachedIndexNode, cachedIndex, prevPos.nodeID)
      nextPos == positionAt(state,
                   indexOfPosition(state, cachedIndexNode, cachedIndex, prevPos, "left") + 1)
  IN \/ /\ result = "MissingNode"
        /\ UNCHANGED vars
     \/ /\ result \notin {"MissingNode", "ok"}
        /\ cachedIndexNode' = prevPos.nodeID
        /\ cachedIndex' = cIdx
        /\ UNCHANGED state
     \/ /\ result = "ok"
        /\ \E startPos \in createPositions(state, prevPos,
                             Position(nextPos.nodeID, nextPos.valueIndex), Len(item)) :
             /\ state' = setState(state, startPos.nodeID, startPos.valueIndex, item)
             /\ cachedIndexNode' = onUpdateCache(prevPos.nodeID, startPos.nodeID)
             /\ cachedIndex' = cachedIndexWhen(cachedIndexNode', cIdx)

\* How insertAt(index, item) ends when the Order has a position to give.
insertAtPrev(st, index) ==
  IF index = 0 THEN Found(MIN_POSITION.nodeID, MIN_POSITION.valueIndex)
  ELSE positionAt(st, index - 1)
insertAtNext(st, index) ==
  IF index = length(st) THEN Found(MAX_POSITION.nodeID, MAX_POSITION.valueIndex)
  ELSE positionAt(st, index)
insertAtStarts(st, index, item) ==
  createPositions(st,
    Position(insertAtPrev(st, index).nodeID, insertAtPrev(st, index).valueIndex),
    Position(insertAtNext(st, index).nodeID, insertAtNext(st, index).valueIndex),
    Len(item))
insertAtOutcome(st, index, item) ==
  IF insertAtPrev(st, index).status # "ok" THEN insertAtPrev(st, index).status
  ELSE IF insertAtNext(st, index).status # "ok" THEN insertAtNext(st, index).status
  ELSE IF insertAtStarts(st, index, item) = {} THEN "InvalidInsertion"
  ELSE "ok"

\* insertAt(index, item).
InsertAt(index, item) ==
  \/ /\ insertAtOutcome(state, index, item) # "ok"
     /\ UNCHANGED vars
  \/ /\ insertAtOutcome(state, index, item) = "ok"
     /\ \E startPos \in insertAtStarts(state, index, item) :
          /\ state' = setState(state, startPos.nodeID, startPos.valueIndex, item)
          /\ cachedIndexNode' = onUpdateCache(cachedIndexNode, startPos.nodeID)
          /\ cachedIndex' = cachedIndexWhen(cachedIndexNode', cachedIndex)

\* ---------------------------------------------------------------- save, load

\* save(saveArray) with the identity as saveArray: the nodes whose values
\* are not empty, each with its sparse sequence.
save(st) == [n \in {k \in DOMAIN st : ~isEmpty(st[k].values)} |-> st[n].values]

\* The loop of load over Object.entries(savedState), given as a sequence of
\* << nodeID, sparse sequence >>; stops at the first unknown nodeID.
RECURSIVE loadEntries(_, _)
loadEntries(st, saved) ==
  IF saved = <<>> THEN [state |-> st, outcome |-> "ok"]
  ELSE LET n == saved[1][1]
       IN IF n \notin NodeIDs THEN [state |-> st, outcome |-> "MissingNode"]
          ELSE LET st1 == getOrCreateData(st, n)
                   existingCount == size(st1[n].values)
                   st2 == [st1 EXCEPT ![n].values = saved[1][2]]
               IN loadEntries(onUpdate(st2, n, size(saved[1][2]) - existingCount),
                              Tail(saved))

\* The sparse sequences a saved state may hold: slot 1 alone, slot 0
\* followed by an absent run that was not trimmed away, and slot 0 alone.
LoadItems == { << <<>>, 1, <<"b">> >>, << <<"a">>, 1 >>, << <<"a">> >> }
\* The entry of a parent whose slot 0 is present, which its children count.
IsParentEntry(e) == e[2][1] = <<"a">>
\* An entry of a saved state: a known node with a sequence whose values lie
\* in the node's slots, or an unknown nodeID.
SavedEntries ==
  {e \in (NodeIDs \cup {UnknownID}) \X LoadItems :
     e[1] \in NodeIDs => \A k \in 1 .. Len(Expand(e[2])) :
                           Expand(e[2])[k] # Absent => (k - 1) \in SlotsOf(e[1])}
\* The saved states load is called with: no entry; one entry; a node and
\* its parent in either order; node c1 followed by an unknown nodeID; the
\* chain root, c1, g with slot 0 each, in every order.
ChainEntries == {<<n, << <<"a">> >> >> : n \in {"ROOT", "c1", "g"}}
SavedStates ==
  {x \in ChainEntries \X ChainEntries \X ChainEntries :
     x[1] # x[2] /\ x[1] # x[3] /\ x[2] # x[3]} \cup
  {<< >>} \cup {<<e>> : e \in SavedEntries} \cup
  {<<ef[1], ef[2]>> : ef \in {x \in SavedEntries \X SavedEntries :
      \/ parent(x[1][1]) = x[2][1] /\ IsParentEntry(x[2])
      \/ parent(x[2][1]) = x[1][1] /\ IsParentEntry(x[1])
      \/ x[1][1] = "c1" /\ x[2][1] = UnknownID /\ x[1][2] = x[2][2]}}

\* The state map after load(savedState): clear, then the loop.
loadState(st, saved) == loadEntries(clearState(st), saved).state

Load(saved) ==
  /\ state' = loadState(state, saved)
  /\ cachedIndexNode' = Null
  /\ cachedIndex' = cachedIndexWhen(Null, cachedIndex)

\* A read that obtains the root's record with getOrCreateData.
readCall_createsRecord(st, cNode, cIdx) ==
  [state |-> getOrCreateData(st, rootNode), cachedIndexNode |-> cNode, cachedIndex |-> cIdx]

\* The list after one of the reads get, has, length, positionAt, entries and
\* save (part_000:237-272, 362-416, 436-508, 546-554): they look records up
\* with this.state.get and iterate this.state, and assign nothing.
readCall(st, cNode, cIdx) ==
  [state |-> st, cachedIndexNode |-> cNode, cachedIndex |-> cIdx]

\* The list after indexOfPosition(pos): the cache holds pos's node
\* (part_000:341-342), unless getNodeFor threw.
indexOfPositionCall(st, cNode, cIdx, pos) ==
  IF pos.nodeID \notin NodeIDs THEN readCall(st, cNode, cIdx)
  ELSE [state |-> st, cachedIndexNode |-> pos.nodeID,
        cachedIndex |-> beforeNodeOf(st, cNode, cIdx, pos.nodeID)]

\* get, has, length, positionAt, entries or save is called.
Read ==
  /\ state' = readCall(state, cachedIndexNode, cachedIndex).state
  /\ cachedIndexNode' = readCall(state, cachedIndexNode, cachedIndex).cachedIndexNode
  /\ cachedIndex' = readCall(state, cachedIndexNode, cachedIndex).cachedIndex

\* ------------------------------------------------------------ specification

Init ==
  /\ state = << >>
  /\ cachedIndexNode = Null
  /\ cachedIndex = -1

\* The indexes the calls by index are given: every index of the list, and
\* the first one out of range on either side.
Indexes == -1 .. (RootLastValueIndex + 2)

Next ==
  \/ \E index \in Indexes : \E value \in Vals : SetAt(index, value)
  \/ \E index \in Indexes : \E count \in Counts : DeleteAt(index, count)
  \/ \E c \in SetCalls : Set(c[1], c[2])
  \/ \E count \in Counts : \E pos \in CallPositions(count) : Delete(pos, count)
  \/ Clear
  \/ \E pos \in CallPositions(1) : IndexOfPosition(pos)
  \/ \E item \in ItemsOver({"a"}) : \E pos \in CallPositions(1) : Insert(pos, item)
  \/ \E item \in ItemsOver({"a"}) : \E index \in 0 .. (RootLastValueIndex + 1) : InsertAt(index, item)
  \/ \E saved \in SavedStates : Load(saved)
  \/ Read

Spec == Init /\ [][Next]_vars

\* The sparse sequence has no trailing absent run, no empty run (the first
\* run, of present values, may be empty when an absent run follows it) and
\* so no two adjacent runs of the same presence.
Normalised(items) ==
  /\ items # <<>> => Len(items) % 2 = 1
  /\ \A k \in 1 .. Len(items) :
       IF k % 2 = 0 THEN items[k] > 0
       ELSE (k > 1 \/ k = Len(items)) => items[k] # <<>>

\* The saved states whose sequences save could have produced.
NormalisedSavedStates ==
  {saved \in SavedStates : \A k \in 1 .. Len(saved) : Normalised(saved[k][2])}

\* The list when load is only given sequences that are normalised.
NextSavedLoads ==
  \/ \E index \in Indexes : \E value \in Vals : SetAt(index, value)
  \/ \E index \in Indexes : \E count \in Counts : DeleteAt(index, count)
  \/ \E c \in SetCalls : Set(c[1], c[2])
  \/ \E count \in Counts : \E pos \in CallPositions(count) : Delete(pos, count)
  \/ Clear
  \/ \E pos \in CallPositions(1) : IndexOfPosition(pos)
  \/ \E item \in ItemsOver({"a"}) : \E pos \in CallPositions(1) : Insert(pos, item)
  \/ \E item \in ItemsOver({"a"}) : \E index \in 0 .. (RootLastValueIndex + 1) : InsertAt(index, item)
  \/ \E saved \in NormalisedSavedStates : Load(saved)
  \/ Read

SpecSavedLoads == Init /\ [][NextSavedLoads]_vars

\* -------------------------------------------------------------------- claims

\* The positions that are present, and the entries list order gives them.
PresentPositions(st) == {p \in ValidPositions : has(st, p)}
RECURSIVE EntriesOf(_, _)
EntriesOf(st, ps) ==
  IF ps = <<>> THEN <<>>
  ELSE <<[pos |-> ps[1], value |-> get(st, ps[1])]>> \o EntriesOf(st, Tail(ps))

\* The slots a call of length len writes from pos on.
WrittenRange(pos, len) ==
  {Position(pos.nodeID, pos.valueIndex + j) : j \in 0 .. (len - 1)}

\* The calls of set and delete that get past the checks and write.
WritingSets == {c \in SetCalls : setOutcome(c[1], c[2]) = "ok" /\ Len(c[2]) >= 1}
DeleteCalls == {c \in ValidPositions \X Counts : c[1] \in CallPositions(c[2])}
WritingDeletes == {c \in DeleteCalls : deleteOutcome(c[1], c[2]) = "ok" /\ c[2] >= 1}
\* The state map right after such a call.
AfterSet(c) == setState(state, c[1].nodeID, c[1].valueIndex, c[2])
AfterDelete(c) == deleteState(state, c[1].nodeID, c[1].valueIndex, c[2])

\* C1: length equals the number of positions p, over all nodes, for which
\* has(p) is true.
C1_LengthIsPresentCount ==
  length(state) = Cardinality(PresentPositions(state))

\* C2: right after a set that succeeds every written position is present
\* and get returns the value written there; right after a delete that
\* succeeds every position of the deleted range is absent and get returns
\* undefined.
C2_WriteVisible ==
  /\ \A c \in WritingSets : \A j \in 1 .. Len(c[2]) :
       /\ has(AfterSet(c), Position(c[1].nodeID, c[1].valueIndex + j - 1))
       /\ get(AfterSet(c), Position(c[1].nodeID, c[1].valueIndex + j - 1)) = c[2][j]
  /\ \A c \in WritingDeletes : \A q \in WrittenRange(c[1], c[2]) :
       ~has(AfterDelete(c), q) /\ get(AfterDelete(c), q) = Undefined

\* A two-slot write into c1 stands next to a leaf whose value was deleted
\* again (the leaf kept its record).
C2_Witness ==
  /\ get(state, Position("c1", 0)) = "a"
  /\ get(state, Position("c1", 1)) = "b"
  /\ "g" \in DOMAIN state
  /\ ~has(state, Position("g", 0))

\* C3: set and delete leave has(q) and get(q) as they were for every
\* position q outside the written range, in the same node and in every
\* other node.
C3_WriteFrame ==
  /\ \A c \in WritingSets : \A q \in ValidPositions \ WrittenRange(c[1], Len(c[2])) :
       has(AfterSet(c), q) = has(state, q) /\ get(AfterSet(c), q) = get(state, q)
  /\ \A c \in WritingDeletes : \A q \in ValidPositions \ WrittenRange(c[1], c[2]) :
       has(AfterDelete(c), q) = has(state, q) /\ get(AfterDelete(c), q) = get(state, q)

\* C4: for every present position p, indexOfPosition(p) is the number of
\* present positions strictly before p in list order.
C4_IndexIsPresentBefore ==
  \A p \in PresentPositions(state) :
    indexOfPosition(state, cachedIndexNode, cachedIndex, p, "none") = PresentBefore(state, p)

\* C5: for every index i in [0, length), positionAt(i) returns the i-th
\* present position in list order and does not throw.
C5_PositionAtIsIth ==
  \A i \in 0 .. (length(state) - 1) :
    /\ positionAt(state, i).status = "ok"
    /\ i + 1 <= Len(PresentInOrder(state))
    /\ Position(positionAt(state, i).nodeID, positionAt(state, i).valueIndex)
         = PresentInOrder(state)[i + 1]

\* C6: positionAt(indexOfPosition(p)) = p for every present position p.
C6_PositionOfIndex ==
  \A p \in PresentPositions(state) :
    LET r == positionAt(state, indexOfPosition(state, cachedIndexNode, cachedIndex, p, "none"))
    IN r.status = "ok" /\ Position(r.nodeID, r.valueIndex) = p

\* C7: indexOfPosition(positionAt(i)) = i for every i in [0, length).
C7_IndexOfPosition ==
  \A i \in 0 .. (length(state) - 1) :
    LET r == positionAt(state, i)
    IN /\ r.status = "ok"
       /\ indexOfPosition(state, cachedIndexNode, cachedIndex,
                          Position(r.nodeID, r.valueIndex), "none") = i

\* C8: entries() yields every present position exactly once, with its
\* current value, in list order.
C8_EntriesInListOrder ==
  entries(state, None, None) = EntriesOf(state, PresentInOrder(state))

\* C9: for all 0 <= a < b <= length, entries(a, b) yields the elements at
\* indices a .. b-1 of the full entries() sequence, in the same order.
C9_EntriesSlice ==
  \A a \in 0 .. length(state) : \A b \in 0 .. length(state) :
    a < b => /\ b <= Len(entries(state, None, None))
             /\ entries(state, Some(a), Some(b)) = SubSeq(entries(state, None, None), a + 1, b)

\* The sum of the totals of the nodes ns, a node with no record counting 0.
RECURSIVE SumTotals(_, _)
SumTotals(st, ns) ==
  IF ns = {} THEN 0
  ELSE LET n == CHOOSE x \in ns : TRUE IN total(st, n) + SumTotals(st, ns \ {n})

\* C10: every record's total is the number of present slots of its values
\* plus the totals of the node's children that have a record.
C10_TotalIsSubtreeCount ==
  \A n \in DOMAIN state :
    state[n].total = size(state[n].values)
                     + SumTotals(state, {c \in NodeIDs : parent(c) = n})

\* C11: no record of the state map has total 0 or less.
C11_NoEmptyRecord ==
  \A n \in DOMAIN state : state[n].total > 0

\* a is n or an ancestor of n.
RECURSIVE IsAncestorOrSelf(_, _)
IsAncestorOrSelf(a, n) ==
  IF n = Null THEN FALSE
  ELSE IF a = n THEN TRUE
  ELSE IsAncestorOrSelf(a, parent(n))

\* C12: a node has a record exactly when the node or one of its descendants
\* holds a present value.
C12_RecordIffPresentBelow ==
  \A n \in NodeIDs :
    (n \in DOMAIN state) <=>
      (\E p \in PresentPositions(state) : IsAncestorOrSelf(n, p.nodeID))

\* C13: for every child c and parent n that both have a record,
\* c.parentValuesBefore is the number of present slots of n.values before
\* c.nextValueIndex.
C13_ParentValuesBefore ==
  \A c \in DOMAIN state :
    (parent(c) # Null /\ parent(c) \in DOMAIN state) =>
      state[c].parentValuesBefore
        = getInfo(state[parent(c)].values, nextValueIndex(c))[3]

\* The root, c1 and g all have records, and both c1 and g stand after a
\* present slot of their parent.
C13_Witness ==
  /\ {"ROOT", "c1", "g"} \subseteq DOMAIN state
  /\ state["c1"].parentValuesBefore = 1
  /\ state["g"].parentValuesBefore = 1

\* Every record of the state map st holds a normalised sequence.
NormalisedState(st) == \A n \in DOMAIN st : Normalised(st[n].values)

\* C14: after every operation, load of an arbitrary stored sequence
\* included, every record's values has no trailing absent run, no empty
\* run and no two adjacent runs of the same presence.
C14_ValuesNormalised ==
  /\ NormalisedState(state)
  /\ \A saved \in SavedStates : NormalisedState(loadState(state, saved))

\* C14, amended: while load is given normalised sequences only, every
\* record's values is normalised after every operation; load installs the
\* sequence it is given as it is.
C14_ValuesNormalisedSavedLoads ==
  /\ NormalisedState(state)
  /\ \A saved \in SavedStates : \A k \in 1 .. Len(saved) :
       LET st == loadState(state, saved)
       IN (loadEntries(<< >>, saved).outcome = "ok" /\ saved[k][1] \in DOMAIN st)
            => st[saved[k][1]].values = saved[k][2]

\* The root holds slot 1 alone after an absent slot 0, c1 holds slot 0, and
\* g kept a record whose only value was deleted.
C14_Witness ==
  /\ {"ROOT", "c1", "g"} \subseteq DOMAIN state
  /\ state["ROOT"].values = << <<>>, 1, <<"b">> >>
  /\ state["c1"].values = << <<"a">> >>
  /\ state["g"].values = << >>

C16_CacheNeverStale ==
  \A p \in ValidPositions : \A dir \in SearchDirs :
    indexOfPosition(state, cachedIndexNode, cachedIndex, p, dir)
      = indexOfPosition(state, Null, -1, p, dir)

\* The cache holds a positive beforeNode for c2, and c2 holds a value.
C16_Witness ==
  /\ cachedIndexNode = "c2"
  /\ cachedIndex > 0
  /\ has(state, Position("c2", 0))

\* The sequences of << nodeID, values >> that list the entries of save(st),
\* one per order of the entries.
SaveOrders(st) ==
  LET sv == save(st)
      n == Cardinality(DOMAIN sv)
  IN {[k \in 1 .. n |-> <<f[k], sv[f[k]]>>] :
        f \in {g \in [1 .. n -> DOMAIN sv] : \A i, j \in 1 .. n : g[i] = g[j] => i = j}}

\* C17: loading save(s) yields a state map equal to s: the same nodes with
\* records, each with the same total, parentValuesBefore and values.
C17_LoadOfSaveIsState ==
  \A saved \in SaveOrders(state) : loadState(<< >>, saved) = state

\* C18: a fresh list that loads save(s) returns the same length, the same
\* entries() and the same indexOfPosition(p, dir) for every p and dir.
C18_LoadOfSaveObservations ==
  \A saved \in SaveOrders(state) :
    LET fresh == loadState(<< >>, saved)
    IN /\ length(fresh) = length(state)
       /\ entries(fresh, None, None) = entries(state, None, None)
       /\ \A p \in ValidPositions : \A dir \in SearchDirs :
            indexOfPosition(fresh, Null, -1, p, dir)
              = indexOfPosition(state, cachedIndexNode, cachedIndex, p, dir)

\* Every order of the entries of the saved state `saved`.
OrdersOf(saved) ==
  {[k \in 1 .. Len(saved) |-> saved[f[k]]] :
     f \in {g \in [1 .. Len(saved) -> 1 .. Len(saved)] :
              \A i, j \in 1 .. Len(saved) : g[i] = g[j] => i = j}}

\* Every saved state of two entries for two different nodes the Order
\* knows, listed once, the node that comes first in list order first.
SavedPairs ==
  {x \in SavedEntries \X SavedEntries :
     /\ x[1][1] \in NodeIDs /\ x[2][1] \in NodeIDs
     /\ OrderIndex(Position(x[1][1], 0)) < OrderIndex(Position(x[2][1], 0))}
\* The saved state of the chain root, c1, g with slot 0 each.
SavedChain == << <<"ROOT", << <<"a">> >> >>, <<"c1", << <<"a">> >> >>, <<"g", << <<"a">> >> >> >>

\* C19: a saved state whose nodes the Order knows loads to the same state
\* map, totals and parentValuesBefore included, in every order of its
\* entries.
C19_LoadOrderInsensitive ==
  \A saved \in SavedPairs \cup {SavedChain} :
    \A other \in OrdersOf(saved) : loadState(state, other) = loadState(state, saved)

\* The state is the one the chain g, c1, root loads to, child first.
C19_Witness ==
  /\ state = loadState(<< >>, << <<"g", << <<"a">> >> >>, <<"c1", << <<"a">> >> >>,
                                 <<"ROOT", << <<"a">> >> >> >>)
  /\ state["g"].parentValuesBefore = 1

\* C20: the state map after load(savedState) is the one a list that was
\* empty before the call ends with.
C20_LoadOverwrites ==
  \A saved \in SavedStates : loadState(state, saved) = loadState(<< >>, saved)

\* Two nodes hold records and the cache is set: a list load has to wipe.
C20_Witness ==
  /\ cachedIndexNode # Null
  /\ Cardinality(DOMAIN state) >= 2
  /\ \E saved \in SavedStates : Len(saved) = 1 /\ loadState(state, saved) # state

\* The calls of set and delete at the root: every start slot up to the
\* first invalid one, with every item or count.
RootPositions == {Position(rootNode, v) : v \in 0 .. (RootLastValueIndex + 1)}
RootSets == {c \in SetCalls : c[1].nodeID = rootNode}
RootDeletes == RootPositions \X Counts

\* C21: a set or delete at the root whose last slot is greater than 1, with
\* count >= 1, fails with InvalidPosition and leaves the state map (and the
\* cache) as they were; with count 0 the call returns without that check.
C21_RootSlotCheck ==
  /\ \A c \in RootSets :
       IF Len(c[2]) >= 1 /\ c[1].valueIndex + Len(c[2]) - 1 > 1
       THEN /\ setOutcome(c[1], c[2]) = "InvalidPosition"
            /\ setCall(state, c[1], c[2]) = state
            /\ setCallCache(cachedIndexNode, c[1], c[2]) = cachedIndexNode
       ELSE setOutcome(c[1], c[2]) = "ok"
  /\ \A c \in RootDeletes :
       IF c[2] >= 1 /\ c[1].valueIndex + c[2] - 1 > 1
       THEN /\ deleteOutcome(c[1], c[2]) = "InvalidPosition"
            /\ deleteCall(state, c[1], c[2]) = state
            /\ deleteCallCache(state, cachedIndexNode, c[1], c[2]) = cachedIndexNode
       ELSE deleteOutcome(c[1], c[2]) = "ok"

\* Both slots of the root are present and the cache holds the root.
C21_Witness ==
  /\ has(state, Position(rootNode, 0))
  /\ has(state, Position(rootNode, 1))
  /\ cachedIndexNode = rootNode

\* C22: positionAt(index) with index < 0 or index >= length fails with
\* IndexOutOfBounds, and so do getAt, setAt and deleteAt, which change
\* nothing.
C22_IndexOutOfBounds ==
  \A index \in Indexes :
    (index < 0 \/ index >= length(state)) =>
      /\ positionAt(state, index).status = "IndexOutOfBounds"
      /\ getAt(state, index).status = "IndexOutOfBounds"
      /\ \A value \in Vals :
           /\ setAtOutcome(state, index, value) = "IndexOutOfBounds"
           /\ setAtState(state, index, value) = state
           /\ setAtCache(state, cachedIndexNode, index, value) = cachedIndexNode
      /\ deleteAtOutcome(state, index, 1) = "IndexOutOfBounds"
      /\ deleteAt(state, cachedIndexNode, index, 1).state = state
      /\ deleteAt(state, cachedIndexNode, index, 1).cachedIndexNode = cachedIndexNode

\* The list has length 2, a record below the root and a cache entry.
C22_Witness ==
  /\ length(state) = 2
  /\ "c1" \in DOMAIN state
  /\ cachedIndexNode # Null

\* C23: deleteAt(index, count) throws and changes nothing when one of
\* index .. index+count-1 is outside [0, length); otherwise it deletes the
\* positions that were at those indexes and length decreases by count.
C23_DeleteAt ==
  \A index \in Indexes : \A count \in Counts \ {0} :
    LET r == deleteAt(state, cachedIndexNode, index, count)
        was == PresentInOrder(state)
    IN IF index < 0 \/ index + count - 1 >= length(state)
       THEN /\ deleteAtOutcome(state, index, count) # "ok"
            /\ r.state = state
       ELSE /\ deleteAtOutcome(state, index, count) = "ok"
            /\ index + count <= Len(was)
            /\ PresentPositions(r.state)
                 = PresentPositions(state) \ {was[k] : k \in (index + 1) .. (index + count)}
            /\ length(r.state) = length(state) - count

\* C24: delete(p, 0) and set(p, item) with an empty item leave the state
\* map and the cache as they were and return an empty sequence, after
\* resolving p's node: they fail when the Order does not know it.
C24_EmptyWrites ==
  \A pos \in CallPositions(0) :
    /\ setCall(state, pos, << >>) = state
    /\ setCallCache(cachedIndexNode, pos, << >>) = cachedIndexNode
    /\ deleteCall(state, pos, 0) = state
    /\ deleteCallCache(state, cachedIndexNode, pos, 0) = cachedIndexNode
    /\ IF pos.nodeID \in NodeIDs
       THEN /\ setOutcome(pos, << >>) = "ok"
            /\ deleteOutcome(pos, 0) = "ok"
            /\ setReturn(state, pos, << >>) = new
            /\ deleteReturn(state, pos, 0) = new
       ELSE /\ setOutcome(pos, << >>) = "MissingNode"
            /\ deleteOutcome(pos, 0) = "MissingNode"

\* c1 and g hold a value each and the cache holds c1.
C24_Witness ==
  /\ cachedIndexNode = "c1"
  /\ has(state, Position("c1", 0))
  /\ has(state, Position("g", 0))

\* C25: after clear() length is 0, entries() yields nothing, has(p) is
\* false for every position and the cache is invalidated.
C25_ClearEmpties ==
  LET st == clearState(state)
  IN /\ length(st) = 0
     /\ entries(st, None, None) = << >>
     /\ \A p \in ValidPositions : ~has(st, p)
     /\ clearCache(cachedIndexNode) = Null

\* A list of length 2 whose entries() yields two values, with a cache entry.
C25_Witness ==
  /\ length(state) = 2
  /\ Len(entries(state, None, None)) = 2
  /\ cachedIndexNode # Null

\* C26: for a position p that is not present, indexOfPosition(p, "none")
\* is -1, indexOfPosition(p, "right") is the number of present positions
\* before p in list order, and indexOfPosition(p, "left") is that number
\* minus 1; so "right" lies in [0, length] and "left" in [-1, length - 1].
C26_SearchDirOfAbsent ==
  \A p \in ValidPositions \ PresentPositions(state) :
    LET idx(dir) == indexOfPosition(state, cachedIndexNode, cachedIndex, p, dir)
    IN /\ idx("none") = -1
       /\ idx("right") = PresentBefore(state, p)
       /\ idx("left") = PresentBefore(state, p) - 1
       /\ idx("right") \in 0 .. length(state)
       /\ idx("left") \in -1 .. (length(state) - 1)

\* The start and end arguments entries is called with: undefined, and
\* every integer from below -length to above length.
SliceArgs ==
  {None} \cup {Some(k) : k \in (0 - RootLastValueIndex - 2) .. (RootLastValueIndex + 2)}

\* Array.prototype.slice(start, end) on the sequence seq.
SliceIndex(arg, len, whenUndefined) ==
  IF ~arg.def THEN whenUndefined
  ELSE IF arg.val < 0 THEN (IF len + arg.val < 0 THEN 0 ELSE len + arg.val)
  ELSE IF arg.val > len THEN len
  ELSE arg.val
ArraySlice(seq, start, end) ==
  SubSeq(seq, SliceIndex(start, Len(seq), 0) + 1, SliceIndex(end, Len(seq), Len(seq)))

\* C27: for all start and end, entries(start, end) yields the elements
\* Array.prototype.slice(start, end) selects from the full entries().
C27_EntriesLikeSlice ==
  \A start \in SliceArgs : \A end \in SliceArgs :
    entries(state, start, end) = ArraySlice(entries(state, None, None), start, end)

\* C28: entries(start, end) yields nothing whenever end <= start or
\* start >= length, for the argument values as the caller passes them.
C28_EmptyRangeAsPassed ==
  \A start \in SliceArgs \ {None} : \A end \in SliceArgs \ {None} :
    (end.val <= start.val \/ start.val >= length(state)) =>
      entries(state, start, end) = << >>

\* C28, amended: entries(start, end) yields nothing whenever start >= length,
\* or end <= start once a negative start or end k has been replaced by
\* length + k and both have been clamped to [0, length].
C28_EmptyRangeNormalised ==
  \A start \in SliceArgs \ {None} : \A end \in SliceArgs \ {None} :
    (\/ start.val >= length(state)
     \/ SliceIndex(end, length(state), length(state))
          <= SliceIndex(start, length(state), 0)) =>
      entries(state, start, end) = << >>

\* The list has length 2 and entries(0, -1), whose end lies below its start
\* as passed, yields one entry.
C28_Witness ==
  /\ length(state) = 2
  /\ Len(entries(state, Some(0), Some(-1))) = 1

\* The items insert and insertAt are given: those of length >= 1.
InsertItems == ItemsOver({"a"}) \ {<< >>}

\* C29: insert(prevPos, item) with an item of length L >= 1 and prevPos not
\* MAX_POSITION succeeds (as long as the Order has positions to give);
\* afterwards the L new positions are present,
\* indexOfPosition(startPos) = indexOfPosition(prevPos, "left") + 1 and
\* length has grown by L.
C29_InsertAfter ==
  \A prevPos \in ValidPositions \ {MAX_POSITION} : \A item \in InsertItems :
    LET result == insertOutcome(state, cachedIndexNode, cachedIndex, prevPos, item)
        nextIndex == indexOfPosition(state, cachedIndexNode, cachedIndex, prevPos, "left") + 1
        nextPos == positionAt(state, nextIndex)
    IN /\ result \in {"ok", "InvalidInsertion"}
       /\ result = "ok" =>
            \A startPos \in createPositions(state, prevPos, PosOf(nextPos), Len(item)) :
              LET st == setCall(state, startPos, item)
              IN /\ \A q \in WrittenRange(startPos, Len(item)) : has(st, q)
                 /\ indexOfPosition(st, Null, -1, startPos, "none") = nextIndex
                 /\ length(st) = length(state) + Len(item)

\* C30: insertAt(i, item) with 0 <= i <= length and an item of length
\* L >= 1 succeeds (as long as the Order has positions to give); afterwards
\* positionAt(i) = startPos, indexOfPosition(startPos) = i and length has
\* grown by L.
C30_InsertAtIndex ==
  \A index \in 0 .. length(state) : \A item \in InsertItems :
    /\ insertAtOutcome(state, index, item) \in {"ok", "InvalidInsertion"}
    /\ insertAtOutcome(state, index, item) = "ok" =>
         \A startPos \in insertAtStarts(state, index, item) :
           LET st == setCall(state, startPos, item)
           IN /\ positionAt(st, index) = Found(startPos.nodeID, startPos.valueIndex)
              /\ indexOfPosition(st, Null, -1, startPos, "none") = index
              /\ length(st) = length(state) + Len(item)

\* The state maps insert(prevPos, item) may leave: set runs last, once the
\* Order has given a position; a call that throws has written nothing.
insertStates(st, cNode, cIdx, prevPos, item) ==
  IF insertOutcome(st, cNode, cIdx, prevPos, item) # "ok" THEN {st}
  ELSE LET nextPos == positionAt(st, indexOfPosition(st, cNode, cIdx, prevPos, "left") + 1)
       IN {setCall(st, startPos, item) :
             startPos \in createPositions(st, prevPos, PosOf(nextPos), Len(item))}

\* The same for insertAt(index, item).
insertAtStates(st, index, item) ==
  IF insertAtOutcome(st, index, item) # "ok" THEN {st}
  ELSE {setCall(st, startPos, item) : startPos \in insertAtStarts(st, index, item)}

\* C31: insert and insertAt fail with InvalidInsertion when prevPos is
\* MAX_POSITION or the item is empty, and a failing insert or insertAt
\* leaves the state map as it was.
C31_InvalidInsertion ==
  /\ \A item \in ItemsOver({"a"}) :
       insertOutcome(state, cachedIndexNode, cachedIndex, MAX_POSITION, item)
         = "InvalidInsertion"
  /\ \A prevPos \in ValidPositions :
       insertOutcome(state, cachedIndexNode, cachedIndex, prevPos, << >>)
         = "InvalidInsertion"
  /\ \A index \in 0 .. length(state) : \A item \in ItemsOver({"a"}) :
       (item = << >> \/ insertAtPrev(state, index) = Found(rootNode, RootLastValueIndex))
         => insertAtOutcome(state, index, item) = "InvalidInsertion"
  /\ \A prevPos \in ValidPositions : \A item \in ItemsOver({"a"}) :
       insertOutcome(state, cachedIndexNode, cachedIndex, prevPos, item) # "ok"
         => insertStates(state, cachedIndexNode, cachedIndex, prevPos, item) = {state}
  /\ \A index \in Indexes : \A item \in ItemsOver({"a"}) :
       insertAtOutcome(state, index, item) # "ok"
         => insertAtStates(state, index, item) = {state}

\* The negative counts a delete is tried with.
NegativeCounts == {-1, -2}

\* How List.delete(startPos, count) ends (list.ts:146-160): the count is
\* checked before the root's slots.
listDeleteOutcome(pos, count) ==
  IF pos.nodeID \notin NodeIDs THEN "MissingNode"
  ELSE IF count = 0 THEN "ok"
  ELSE IF count < 0 THEN "InvalidCount"
  ELSE IF pos.nodeID = rootNode /\ pos.valueIndex + count - 1 > RootLastValueIndex
  THEN "InvalidPosition"
  ELSE "ok"

\* The state map after the whole call List.delete(startPos, count).
listDeleteCall(st, pos, count) ==
  IF listDeleteOutcome(pos, count) = "ok" /\ count # 0
  THEN deleteState(st, pos.nodeID, pos.valueIndex, count)
  ELSE st

\* C32: delete(startPos, count) with a negative count fails with
\* InvalidCount and leaves the state map as it was, on ItemList and Outline
\* as well as on List.
C32_NegativeCount ==
  \A pos \in ValidPositions : \A count \in NegativeCounts :
    /\ deleteOutcome(pos, count) = "InvalidCount"
    /\ deleteCall(state, pos, count) = state
    /\ listDeleteOutcome(pos, count) = "InvalidCount"
    /\ listDeleteCall(state, pos, count) = state

\* cursorAt(index) (part_001:211-213): the position to the left of the gap,
\* MIN_POSITION for the gap at the start.
cursorAt(st, index) ==
  IF index = 0 THEN Found(MIN_POSITION.nodeID, MIN_POSITION.valueIndex)
  ELSE positionAt(st, index - 1)

\* indexOfCursor(cursor) (part_001:221-225).
indexOfCursor(st, cNode, cIdx, cursor) ==
  IF cursor = MIN_POSITION THEN 0
  ELSE indexOfPosition(st, cNode, cIdx, cursor, "left") + 1

\* C33: indexOfCursor(cursorAt(i)) = i for every i in [0, length].
C33_CursorRoundTrip ==
  \A i \in 0 .. length(state) :
    /\ cursorAt(state, i).status = "ok"
    /\ indexOfCursor(state, cachedIndexNode, cachedIndex, PosOf(cursorAt(state, i))) = i

\* The positions to the right of p in the list order.
RightOf(p) == {q \in ValidPositions : OrderIndex(q) > OrderIndex(p)}

\* indexOfCursor(cursor) once delete(pos, 1) has run, read with the cache
\* the delete leaves.
CursorAfterDelete(cursor, pos) ==
  indexOfCursor(deleteCall(state, pos, 1),
                deleteCallCache(state, cachedIndexNode, pos, 1),
                cachedIndexWhen(deleteCallCache(state, cachedIndexNode, pos, 1), cachedIndex),
                cursor)

\* The same once set(pos, [a]) has run.
CursorAfterSet(cursor, pos) ==
  indexOfCursor(setCall(state, pos, <<"a">>),
                setCallCache(cachedIndexNode, pos, <<"a">>),
                cachedIndexWhen(setCallCache(cachedIndexNode, pos, <<"a">>), cachedIndex),
                cursor)

\* C34: with c = cursorAt(i), i >= 1: once the position c is deleted,
\* indexOfCursor(c) = i - 1; once a value strictly to the right of c is
\* deleted or set, indexOfCursor(c) = i still.
C34_CursorSurvives ==
  \A i \in 1 .. length(state) :
    LET c == cursorAt(state, i)
    IN /\ c.status = "ok"
       /\ CursorAfterDelete(PosOf(c), PosOf(c)) = i - 1
       /\ \A q \in RightOf(PosOf(c)) :
            IF has(state, q) THEN CursorAfterDelete(PosOf(c), q) = i
            ELSE CursorAfterSet(PosOf(c), q) = i

\* C35: MIN_POSITION and MAX_POSITION are never present, and positionAt
\* returns neither of them.
C35_NoSentinelStored ==
  /\ ~has(state, MIN_POSITION)
  /\ ~has(state, MAX_POSITION)
  /\ \A i \in 0 .. (length(state) - 1) :
       positionAt(state, i).status = "ok"
         => PosOf(positionAt(state, i)) \notin {MIN_POSITION, MAX_POSITION}

\* The change a writing call makes to the number of present slots of its
\* node: the slots written less those displaced (part_000:73, 104).
SetDelta(c) == Len(c[2]) - size(setReturn(state, c[1], c[2]))
DeleteDelta(c) == 0 - size(deleteReturn(state, c[1], c[2]))

\* From state map `before` to `after`, delta went once to the total of n and
\* of each ancestor of n, whose record exists afterwards exactly when its
\* total is not 0; the other nodes kept their record and total.
TotalsMoved(before, after, n, delta) ==
  \A m \in NodeIDs :
    IF IsAncestorOrSelf(m, n)
    THEN /\ total(after, m) = total(before, m) + delta
         /\ (m \in DOMAIN after) <=> (total(after, m) # 0)
    ELSE /\ total(after, m) = total(before, m)
         /\ (m \in DOMAIN after) <=> (m \in DOMAIN before)

\* C36: a set or delete that changes the number of present slots of node n
\* by delta # 0 adds delta exactly once to the total of n and of each
\* ancestor of n, creating a missing ancestor record and deleting one that
\* reaches 0, and changes no other record's total.
C36_TotalsMaintenance ==
  /\ \A c \in WritingSets :
       SetDelta(c) # 0 => TotalsMoved(state, AfterSet(c), c[1].nodeID, SetDelta(c))
  /\ \A c \in WritingDeletes :
       DeleteDelta(c) # 0 => TotalsMoved(state, AfterDelete(c), c[1].nodeID, DeleteDelta(c))

\* The deletes that reach onUpdate: the node has a record.
MaintainedDeletes == {c \in WritingDeletes : c[1].nodeID \in DOMAIN state}

\* C37 as stated: after every mutation, of the cached node's record too,
\* cachedIndexNode is null.
C37_CacheDroppedByEveryMutation ==
  /\ \A c \in WritingSets : setCallCache(cachedIndexNode, c[1], c[2]) = Null
  /\ \A c \in MaintainedDeletes :
       deleteCallCache(state, cachedIndexNode, c[1], c[2]) = Null
  /\ clearCache(cachedIndexNode) = Null

\* C37: a set or delete that reaches onUpdate for a node other than the
\* cached one leaves cachedIndexNode null, and so does clear; one that
\* writes the cached node's own record keeps the cache, and the cache it
\* keeps still gives the index the walk up the tree gives.
C37_CacheDroppedByOtherNodes ==
  /\ \A c \in WritingSets :
       LET cNode == setCallCache(cachedIndexNode, c[1], c[2])
       IN /\ cNode = (IF c[1].nodeID = cachedIndexNode THEN cachedIndexNode ELSE Null)
          /\ \A p \in ValidPositions :
               indexOfPosition(AfterSet(c), cNode, cachedIndexWhen(cNode, cachedIndex), p, "none")
                 = indexOfPosition(AfterSet(c), Null, -1, p, "none")
  /\ \A c \in MaintainedDeletes :
       LET cNode == deleteCallCache(state, cachedIndexNode, c[1], c[2])
       IN /\ cNode = (IF c[1].nodeID = cachedIndexNode THEN cachedIndexNode ELSE Null)
          /\ \A p \in ValidPositions :
               indexOfPosition(AfterDelete(c), cNode, cachedIndexWhen(cNode, cachedIndex), p, "none")
                 = indexOfPosition(AfterDelete(c), Null, -1, p, "none")
  /\ clearCache(cachedIndexNode) = Null

\* The cache is held for c1, which has a record with a value to overwrite or
\* delete, while g and the root hold values a write would drop the cache for.
C37_Witness ==
  /\ cachedIndexNode = "c1"
  /\ has(state, Position("c1", 0))
  /\ has(state, Position("g", 0))
  /\ has(state, Position(rootNode, 0))

\* The calls of delete over slots that are all absent.
AbsentDeletes ==
  {c \in DeleteCalls : \A q \in WrittenRange(c[1], c[2]) : ~has(state, q)}

\* C38: set(p, item) run a second time leaves the state map as the first
\* call left it, and so does delete(p, n); a delete over slots that are all
\* absent, those of a node without a record included, leaves the state map
\* as it was and creates no record.
C38_Idempotent ==
  /\ \A c \in SetCalls :
       setCall(setCall(state, c[1], c[2]), c[1], c[2]) = setCall(state, c[1], c[2])
  /\ \A c \in DeleteCalls :
       deleteCall(deleteCall(state, c[1], c[2]), c[1], c[2]) = deleteCall(state, c[1], c[2])
  /\ \A c \in AbsentDeletes :
       /\ deleteCall(state, c[1], c[2]) = state
       /\ DOMAIN deleteCall(state, c[1], c[2]) = DOMAIN state

\* c1 keeps a record whose values were all deleted, the root holds a value
\* and c2 has no record: deletes over absent slots of both kinds of node.
C38_Witness ==
  /\ "c1" \in DOMAIN state
  /\ state["c1"].values = << >>
  /\ has(state, Position(rootNode, 0))
  /\ "c2" \notin DOMAIN state

\* Outline.from(positions, order) (part_001:52-58): set(pos) for each
\* position in turn, on a new list.
RECURSIVE from(_)
from(positions) ==
  IF positions = << >> THEN << >>
  ELSE setCall(from(SubSeq(positions, 1, Len(positions) - 1)),
               positions[Len(positions)], <<"a">>)

\* The pairs of writing set calls over disjoint positions, the one that is
\* first in the list order named first.
DisjointSets ==
  {cc \in WritingSets \X WritingSets :
     /\ OrderIndex(cc[1][1]) < OrderIndex(cc[2][1])
     /\ WrittenRange(cc[1][1], Len(cc[1][2])) \cap WrittenRange(cc[2][1], Len(cc[2][2])) = {}}

\* The sequences of three different positions.
PositionTriples ==
  {t \in ValidPositions \X ValidPositions \X ValidPositions :
     t[1] # t[2] /\ t[1] # t[3] /\ t[2] # t[3]}

\* C39: two set calls over disjoint positions give the same state map in
\* either order, and Outline.from gives the same state map for every order
\* of its positions.
C39_SetsCommute ==
  /\ \A cc \in DisjointSets :
       setCall(setCall(state, cc[1][1], cc[1][2]), cc[2][1], cc[2][2])
         = setCall(setCall(state, cc[2][1], cc[2][2]), cc[1][1], cc[1][2])
  /\ state = << >> =>
       \A t \in PositionTriples :
         /\ from(t) = from(<<t[2], t[1], t[3]>>)
         /\ from(t) = from(<<t[1], t[3], t[2]>>)
         /\ from(t) = from(<<t[3], t[2], t[1]>>)

\* The root holds both its values and c1 and g hold one each: sets at four
\* positions of three nodes have run.
C39_Witness ==
  /\ has(state, Position(rootNode, 0))
  /\ has(state, Position(rootNode, 1))
  /\ has(state, Position("c1", 0))
  /\ has(state, Position("g", 0))
  /\ ~has(state, Position("c2", 0))

\* C40: get, has, length, positionAt, entries and save leave the state map
\* and the cache as they were; indexOfPosition leaves the state map as it
\* was and names the position's node in the cache; no read creates a record.
C40_ReadsChangeNothing ==
  /\ readCall(state, cachedIndexNode, cachedIndex).state = state
  /\ DOMAIN readCall(state, cachedIndexNode, cachedIndex).state = DOMAIN state
  /\ readCall(state, cachedIndexNode, cachedIndex).cachedIndexNode = cachedIndexNode
  /\ readCall(state, cachedIndexNode, cachedIndex).cachedIndex = cachedIndex
  /\ \A pos \in CallPositions(1) :
       LET after == indexOfPositionCall(state, cachedIndexNode, cachedIndex, pos)
       IN /\ after.state = state
          /\ DOMAIN after.state = DOMAIN state
          /\ after.cachedIndexNode \in {cachedIndexNode, pos.nodeID}

\* indexOfPosition has stored g in the cache, and neither g nor the root has
\* a record a read could have created; c1 holds a value.
C40_Witness ==
  /\ cachedIndexNode = "g"
  /\ "g" \notin DOMAIN state
  /\ rootNode \notin DOMAIN state
  /\ has(state, Position("c1", 0))

====
